---------------------------- MODULE Spec2Model ----------------------------
(***************************************************************************)
(* A model of src/main.py: the conduct-point dashboard.  load_data builds  *)
(* a table from the cells of one worksheet; main selects a month and a day *)
(* (left column) and a grade and a class (right column) and filters the    *)
(* table.                                                                  *)
(*                                                                         *)
(* Text is a sequence of characters, each character a one-element token.   *)
(* The Korean syllables of the source are written romanised, one token per *)
(* syllable: "nal","jja" is the date label, "hak","beon" the student-number *)
(* label, "a","chim" the morning value, "wol" and "il" the month and day   *)
(* unit characters.                                                        *)
(***************************************************************************)
EXTENDS Integers, Sequences, FiniteSets, TLC

VARIABLES
    sheet_names,   \* what list_worksheets returned
    sel_sheet,     \* the worksheet selected at line 128
    values,        \* ws.get_all_values(): the sheet, row 1 being the header
    pc,            \* position of main
    raised,        \* TRUE when the run ended with an exception
    df,            \* the table load_data returned
    messages,      \* what st.warning / st.error / st.info showed, in order
    months, days,  \* the options of the month and the day selectbox
    sel_month, sel_day, df_day, shown_day,
    today, week_start, week_end,
    grades, class_options, sel_grade, sel_class,
    class_mask,    \* line 190, one truth value per row of df
    df_today, df_week, shown_today, shown_week,
    display_cols, display_cols_today, display_cols_week

vars == << sheet_names, sel_sheet, values, pc, raised, df, messages,
           months, days, sel_month, sel_day, df_day, shown_day,
           today, week_start, week_end,
           grades, class_options, sel_grade, sel_class, class_mask,
           df_today, df_week, shown_today, shown_week,
           display_cols, display_cols_today, display_cols_week >>

\* The largest number of data rows of a sheet.
MaxRows == 3

---------------------------------------------------------------------------
\* Column labels (src/main.py:9-20).

DATE_COL == << "nal", "jja" >>

STU_ID_COL == << "hak", "beon" >>

NAME_COL == << "i", "reum" >>

ITEM_COL == << "sa", "yu" >>

NOTE_COL == << "bi", "go" >>

GRADE_COL == << "hak", "nyeon" >>

CLASS_COL == << "ban" >>

TIME_COL == << "si", "gan", "dae" >>

MONTH_COL == << "wol" >>

DAY_COL == << "il" >>

DATE_ONLY_COL == << "d", "a", "t", "e", "_", "o", "n", "l", "y" >>

BASE_DISPLAY_COLS ==
    << DATE_COL, GRADE_COL, CLASS_COL, STU_ID_COL, NAME_COL, ITEM_COL, NOTE_COL >>

\* The value the exact-day view keeps in the time-of-day column.
MORNING == << "a", "chim" >>

---------------------------------------------------------------------------
\* Text.

Range(s) == { s[i] : i \in 1..Len(s) }

\* str.strip(): the whitespace of the modelled alphabet is the blank.
RECURSIVE LStrip(_)
LStrip(s) ==
    IF s = << >> THEN s
    ELSE IF Head(s) = " " THEN LStrip(Tail(s)) ELSE s

RECURSIVE RStrip(_)
RStrip(s) ==
    IF s = << >> THEN s
    ELSE IF s[Len(s)] = " " THEN RStrip(SubSeq(s, 1, Len(s) - 1)) ELSE s

Strip(s) == RStrip(LStrip(s))

\* pandas' missing value of an object column; no text is equal to it.
NaN == << "NaN" >>

\* Python's None, what a selectbox over no options returns.
None == << "None" >>

\* Series.str[i] (0-based): the one-character text at i, NaN past the end.
StrAt(s, i) == IF i + 1 <= Len(s) THEN << s[i + 1] >> ELSE NaN

\* Elementwise == of a column with a scalar: a missing value equals nothing.
PyEq(a, b) == a # NaN /\ a = b

Digits == { "0", "1", "2", "3", "4", "5", "6", "7", "8", "9" }

DigitVal(c) ==
    CASE c = "0" -> 0 [] c = "1" -> 1 [] c = "2" -> 2 [] c = "3" -> 3
      [] c = "4" -> 4 [] c = "5" -> 5 [] c = "6" -> 6 [] c = "7" -> 7
      [] c = "8" -> 8 [] c = "9" -> 9

---------------------------------------------------------------------------
\* Dates (datetime.date, pandas Timestamp at midnight) are [y, m, d].

\* pandas' missing timestamp.
NaT == [y |-> 0, m |-> 0, d |-> 0]

IsLeap(y) == (y % 4 = 0 /\ y % 100 # 0) \/ y % 400 = 0

DaysInMonth(y, m) ==
    IF m = 2 THEN (IF IsLeap(y) THEN 29 ELSE 28)
    ELSE IF m \in {4, 6, 9, 11} THEN 30 ELSE 31

RECURSIVE DaysBeforeMonth(_, _)
DaysBeforeMonth(y, m) ==
    IF m = 1 THEN 0 ELSE DaysBeforeMonth(y, m - 1) + DaysInMonth(y, m - 1)

\* date.toordinal(): 0001-01-01 is day 1.
toordinal(t) ==
    LET p == t.y - 1
    IN  p * 365 + (p \div 4) - (p \div 100) + (p \div 400)
          + DaysBeforeMonth(t.y, t.m) + t.d

\* date.weekday(): Monday is 0, Sunday is 6.
weekday(t) == (toordinal(t) + 6) % 7

NextDay(t) ==
    IF t.d < DaysInMonth(t.y, t.m) THEN [t EXCEPT !.d = t.d + 1]
    ELSE IF t.m < 12 THEN [y |-> t.y, m |-> t.m + 1, d |-> 1]
    ELSE [y |-> t.y + 1, m |-> 1, d |-> 1]

PrevDay(t) ==
    IF t.d > 1 THEN [t EXCEPT !.d = t.d - 1]
    ELSE IF t.m > 1 THEN [y |-> t.y, m |-> t.m - 1, d |-> DaysInMonth(t.y, t.m - 1)]
    ELSE [y |-> t.y - 1, m |-> 12, d |-> 31]

\* date + timedelta(days=n) and date - timedelta(days=n).
RECURSIVE PlusDays(_, _)
PlusDays(t, n) == IF n = 0 THEN t ELSE PlusDays(NextDay(t), n - 1)

RECURSIVE MinusDays(_, _)
MinusDays(t, n) == IF n = 0 THEN t ELSE MinusDays(PrevDay(t), n - 1)

\* date <= date: the order of (year, month, day).
DateLE(a, b) ==
    \/ a.y < b.y
    \/ a.y = b.y /\ a.m < b.m
    \/ a.y = b.y /\ a.m = b.m /\ a.d <= b.d

\* pd.to_datetime(cell, errors="coerce") on the cells of the modelled sheets:
\* an ISO "YYYY-MM-DD" text of a real calendar day is that day, every other
\* cell (the empty cell, text with unit characters, a day that does not
\* exist) is coerced to NaT.
to_datetime(s) ==
    IF /\ Len(s) = 10
       /\ s[5] = "-" /\ s[8] = "-"
       /\ \A i \in {1, 2, 3, 4, 6, 7, 9, 10} : s[i] \in Digits
    THEN LET y == DigitVal(s[1]) * 1000 + DigitVal(s[2]) * 100
                    + DigitVal(s[3]) * 10 + DigitVal(s[4])
             m == DigitVal(s[6]) * 10 + DigitVal(s[7])
             d == DigitVal(s[9]) * 10 + DigitVal(s[10])
         IN  IF y >= 1 /\ m \in 1..12 /\ d >= 1 /\ d <= DaysInMonth(y, m)
             THEN [y |-> y, m |-> m, d |-> d]
             ELSE NaT
    ELSE NaT

---------------------------------------------------------------------------
\* The table: [columns, rows].  A row keeps its pandas index (the 0-based
\* position of the sheet row among the data rows), the cells of the sheet
\* row, and the columns load_data assigns.

EmptyDataFrame == [columns |-> << >>, rows |-> << >>]

\* DataFrame.empty
IsEmpty(frame) == frame.columns = << >> \/ frame.rows = << >>

Count(s, x) == Cardinality({ i \in 1..Len(s) : s[i] = x })

ColPos(columns, label) == CHOOSE i \in 1..Len(columns) : columns[i] = label

\* The cell of a row under a label of the sheet's header.
Cell(columns, r, label) == r.cells[ColPos(columns, label)]

Warning(text) == [level |-> "warning", text |-> text, names |-> << >>, header |-> << >>]

Info(text) == [level |-> "info", text |-> text, names |-> << >>, header |-> << >>]

\* The st.error of load_data: it names both mandatory labels and the header.
ColumnsError(header) ==
    [level |-> "error", text |-> "columns_required",
     names |-> << DATE_COL, STU_ID_COL >>, header |-> header]

\* The st.error of get_gspread_client (line 39).
SecretsError ==
    [level |-> "error", text |-> "secrets_required", names |-> << >>, header |-> << >>]

\* The st.error of main for a spreadsheet without worksheet (line 125).
NoWorksheetError ==
    [level |-> "error", text |-> "no_worksheet", names |-> << >>, header |-> << >>]

\* What st.secrets can hold: no [gcp_service_account] section; a section
\* that is no service account (line 42 raises); a section without
\* spreadsheet_id (line 44 raises KeyError); a complete section.
Secrets == { "absent", "malformed", "no_spreadsheet_id", "valid" }

\* get_gspread_client (lines 34-46): without the section, st.error and
\* st.stop(); with a section that lacks what lines 42 and 44 read, an
\* exception.
get_gspread_client(secret) ==
    IF secret = "absent"
    THEN [stopped |-> TRUE, raised |-> FALSE, messages |-> << SecretsError >>]
    ELSE IF secret \in { "malformed", "no_spreadsheet_id" }
    THEN [stopped |-> FALSE, raised |-> TRUE, messages |-> << >>]
    ELSE [stopped |-> FALSE, raised |-> FALSE, messages |-> << >>]

\* list_worksheets (lines 50-55), given st.secrets, whether the spreadsheet
\* service answers (open_by_key and worksheets raise otherwise) and the
\* titles of the spreadsheet's tabs.
list_worksheets(secret, api, titles) ==
    LET client == get_gspread_client(secret)
    IN  IF client.stopped \/ client.raised
        THEN [stopped |-> client.stopped, raised |-> client.raised,
              messages |-> client.messages, sheets |-> << >>]
        ELSE IF ~api
        THEN [stopped |-> FALSE, raised |-> TRUE, messages |-> << >>, sheets |-> << >>]
        ELSE [stopped |-> FALSE, raised |-> FALSE, messages |-> << >>, sheets |-> titles]

\* One data row after lines 94-108, given the stripped header.
MakeRow(header, cells, index) ==
    LET date   == to_datetime(cells[ColPos(header, DATE_COL)])
        stu_id == Strip(cells[ColPos(header, STU_ID_COL)])
    IN  [index |-> index, cells |-> cells, DATE |-> date, STU_ID |-> stu_id,
         GRADE |-> StrAt(stu_id, 0), CLASS |-> StrAt(stu_id, 1),
         month |-> date.m, day |-> date.d, date_only |-> date]

\* Lines 94-96: parse the date column, then drop the rows it left missing.
ParseAndDropDates(header, data_rows) ==
    SelectSeq([i \in 1..Len(data_rows) |-> MakeRow(header, data_rows[i], i - 1)],
              LAMBDA r : r.DATE # NaT)

\* load_data (lines 60-110), given st.secrets, whether the spreadsheet
\* service answers (open_by_key, worksheet and get_all_values raise
\* otherwise) and the cells the worksheet returns.  read tells whether the
\* cells were read (line 69).
load_data(secret, api, vals) ==
    IF get_gspread_client(secret).stopped \/ get_gspread_client(secret).raised
    THEN [stopped |-> get_gspread_client(secret).stopped,
          raised |-> get_gspread_client(secret).raised,
          read |-> FALSE, df |-> EmptyDataFrame,
          messages |-> get_gspread_client(secret).messages]
    ELSE IF ~api
    THEN [stopped |-> FALSE, raised |-> TRUE, read |-> FALSE,
          df |-> EmptyDataFrame, messages |-> << >>]
    ELSE IF vals = << >>
    THEN [stopped |-> FALSE, raised |-> FALSE, read |-> TRUE, df |-> EmptyDataFrame,
          messages |-> << Warning("no_data") >>]
    ELSE
      LET header    == [i \in 1..Len(vals[1]) |-> Strip(vals[1][i])]
          data_rows == Tail(vals)
      IN  IF \A i \in 1..Len(header) : header[i] = << >>
          THEN [stopped |-> FALSE, raised |-> FALSE, read |-> TRUE, df |-> EmptyDataFrame,
                messages |-> << Warning("no_header") >>]
          ELSE IF DATE_COL \notin Range(header) \/ STU_ID_COL \notin Range(header)
          THEN [stopped |-> FALSE, raised |-> FALSE, read |-> TRUE, df |-> EmptyDataFrame,
                messages |-> << ColumnsError(header) >>]
          ELSE IF Count(header, DATE_COL) > 1
          \* df[DATE_COL] is then a DataFrame with repeated labels, of which
          \* pd.to_datetime raises (line 95)
          THEN [stopped |-> FALSE, raised |-> TRUE, read |-> TRUE,
                df |-> EmptyDataFrame, messages |-> << >>]
          ELSE IF Count(header, STU_ID_COL) > 1
          \* df[STU_ID_COL] is then a DataFrame, which has no .str (line 99)
          THEN [stopped |-> FALSE, raised |-> TRUE, read |-> TRUE,
                df |-> EmptyDataFrame, messages |-> << >>]
          ELSE [stopped |-> FALSE, raised |-> FALSE, read |-> TRUE,
                df |-> [columns |-> header \o << GRADE_COL, CLASS_COL, MONTH_COL,
                                                 DAY_COL, DATE_ONLY_COL >>,
                        rows |-> ParseAndDropDates(header, data_rows)],
                messages |-> << >>]

get_display_cols(frame) ==
    SelectSeq(BASE_DISPLAY_COLS, LAMBDA c : c \in Range(frame.columns))

---------------------------------------------------------------------------
\* The left column of main: the exact-day view (lines 139-171).

\* st.selectbox: one of the options, None when there is none.
Selectbox(options) == IF options = {} THEN { None } ELSE options

\* Series.unique() of a column, as main then sorts it for a selectbox.
Months(frame) == { r.month : r \in Range(frame.rows) }

Days(frame, month) == { r.day : r \in { q \in Range(frame.rows) : q.month = month } }

\* A variant of DayMask that forgets the month.
DayMaskNoMonth(frame, month, day, r) ==
    /\ r.day = day
    /\ (TIME_COL \in Range(frame.columns) => Cell(frame.columns, r, TIME_COL) = MORNING)

\* A variant of DayMask that never looks at the time-of-day column.
DayMaskAllDay(frame, month, day, r) == r.month = month /\ r.day = day

\* Lines 149-153: the month and the day, and the morning value when the
\* sheet has a time-of-day column.
DayMask(frame, month, day, r) ==
    /\ r.month = month
    /\ r.day = day
    /\ (TIME_COL \in Range(frame.columns) => Cell(frame.columns, r, TIME_COL) = MORNING)

\* One step of the insertion sort: the row goes behind every row whose
\* timestamp is not later than its own.
RECURSIVE InsertByDate(_, _)
InsertByDate(sorted, r) ==
    IF sorted = << >> THEN << r >>
    ELSE IF DateLE(sorted[Len(sorted)].DATE, r.DATE) THEN Append(sorted, r)
    ELSE Append(InsertByDate(SubSeq(sorted, 1, Len(sorted) - 1), r),
                sorted[Len(sorted)])

\* DataFrame.sort_values(DATE_COL) on a view of fewer than 17 rows: the
\* default kind, "quicksort", sorts so few rows by insertion, so the rows
\* come in ascending order of the timestamp and rows of equal timestamps
\* stay in the order of the view.
RECURSIVE sort_values(_)
sort_values(rows) ==
    IF rows = << >> THEN << >>
    ELSE InsertByDate(sort_values(SubSeq(rows, 1, Len(rows) - 1)), rows[Len(rows)])

\* What st.dataframe shows of a view: nothing when the view has no row.
Shown(rows) == IF Len(rows) = 0 THEN << >> ELSE sort_values(rows)

---------------------------------------------------------------------------
\* The right column of main: today's and this week's view of one class
\* (lines 174-231).

\* A variant of GradeOptions without dropna().
GradeOptionsKeepNaN(frame) == { r.GRADE : r \in Range(frame.rows) }

\* Lines 181 and 184-186: the options drop the missing values.
GradeOptions(frame) == { r.GRADE : r \in Range(frame.rows) } \ { NaN }

ClassOptions(frame, grade) ==
    { r.CLASS : r \in { q \in Range(frame.rows) : PyEq(q.GRADE, grade) } } \ { NaN }

\* A variant of ClassMask that compares the grade alone.
ClassMaskGradeOnly(grade, class, r) == PyEq(r.GRADE, grade)

\* Line 190.
ClassMask(grade, class, r) == PyEq(r.GRADE, grade) /\ PyEq(r.CLASS, class)

\* Lines 178-179: Monday and Sunday of the week of the day.
WeekStart(day) == MinusDays(day, weekday(day))

WeekEnd(start) == PlusDays(start, 6)

\* A variant of InWeek that leaves the last day out.
InWeekExclusive(start, end, r) ==
    DateLE(start, r.date_only) /\ DateLE(r.date_only, end) /\ r.date_only # end

\* Lines 193-197.
InWeek(start, end, r) == DateLE(start, r.date_only) /\ DateLE(r.date_only, end)

---------------------------------------------------------------------------
\* The sheets and the days the model runs on.

T_0304 == << "2", "0", "2", "4", "-", "0", "3", "-", "0", "4" >>

T_0310 == << "2", "0", "2", "4", "-", "0", "3", "-", "1", "0" >>

T_0311 == << "2", "0", "2", "4", "-", "0", "3", "-", "1", "1" >>

T_0404 == << "2", "0", "2", "4", "-", "0", "4", "-", "0", "4" >>

T_2023 == << "2", "0", "2", "3", "-", "0", "3", "-", "0", "4" >>

\* "4wol 11il": a month and a day with their unit characters.
T_Unit == << "4", "wol", " ", "1", "1", "il" >>

LUNCH == << "jeom", "sim" >>

Kim == << "gim" >>

\* The data rows a sheet is made of, by field.
RowPool ==
    { [date |-> T_0304, id |-> << "2", "4", "1", "4" >>,      name |-> Kim, time |-> MORNING],
      [date |-> T_0304, id |-> << " ", "2", "4", "1", "5" >>, name |-> Kim, time |-> LUNCH],
      [date |-> T_2023, id |-> << "2", "5", "0", "1" >>,      name |-> Kim, time |-> MORNING],
      [date |-> T_0310, id |-> << "2", "4", "1", "4" >>,      name |-> Kim, time |-> LUNCH],
      [date |-> T_0311, id |-> << "2", "4", "1", "4" >>,      name |-> Kim, time |-> MORNING],
      [date |-> T_0404, id |-> << "2" >>,                     name |-> Kim, time |-> MORNING],
      [date |-> << >>,  id |-> << "2", "4", "1", "4" >>,      name |-> Kim, time |-> MORNING],
      [date |-> T_Unit, id |-> << "2", "5", "0", "1" >>,      name |-> Kim, time |-> LUNCH],
      [date |-> T_0304, id |-> << " " >>,                     name |-> Kim, time |-> MORNING] }

\* The headers: the cells of row 1 and the field under each of them.  No
\* header holds the time-of-day label more than once.
HeaderPool ==
    { [cells  |-> << DATE_COL, STU_ID_COL, NAME_COL >>,
       layout |-> << "date", "id", "name" >>],
      [cells  |-> << NAME_COL, << " " >> \o STU_ID_COL, DATE_COL \o << " " >>, TIME_COL >>,
       layout |-> << "name", "id", "date", "time" >>],
      [cells  |-> << DATE_COL, NAME_COL >>,
       layout |-> << "date", "name" >>],
      [cells  |-> << STU_ID_COL, NAME_COL >>,
       layout |-> << "id", "name" >>],
      [cells  |-> << NAME_COL, NOTE_COL >>,
       layout |-> << "name", "name" >>],
      [cells  |-> << << >>, << " " >> >>,
       layout |-> << "date", "id" >>],
      [cells  |-> << DATE_COL, STU_ID_COL, STU_ID_COL >>,
       layout |-> << "date", "id", "id" >>],
      [cells  |-> << DATE_COL, DATE_COL, STU_ID_COL >>,
       layout |-> << "date", "date", "id" >>] }

RowSeqs == UNION { [1..n -> RowPool] : n \in 0..MaxRows }

Sheet(h, rs) ==
    << h.cells >> \o
    [i \in 1..Len(rs) |-> [j \in 1..Len(h.layout) |-> rs[i][h.layout[j]]]]

Sheets == { << >> } \cup { Sheet(h, rs) : h \in HeaderPool, rs \in RowSeqs }

\* The title of a worksheet, "8wol".
Tab == << "8", "wol" >>

\* The titles of the tabs of the spreadsheet: none, or one.
TitleLists == { << >>, << Tab >> }

\* date.today(): a Monday, a Wednesday and a Sunday of one week.
Todays ==
    { [y |-> 2024, m |-> 3, d |-> 4],
      [y |-> 2024, m |-> 3, d |-> 6],
      [y |-> 2024, m |-> 3, d |-> 10] }

---------------------------------------------------------------------------
\* The state machine.

Init ==
    /\ sheet_names = << >>
    /\ sel_sheet = None
    /\ values = << >>
    /\ pc = "start"
    /\ raised = FALSE
    /\ df = EmptyDataFrame
    /\ messages = << >>
    /\ months = {}
    /\ days = {}
    /\ sel_month = 0
    /\ sel_day = 0
    /\ df_day = << >>
    /\ shown_day = << >>
    /\ today = NaT
    /\ week_start = NaT
    /\ week_end = NaT
    /\ grades = {}
    /\ class_options = {}
    /\ sel_grade = None
    /\ sel_class = None
    /\ class_mask = << >>
    /\ df_today = << >>
    /\ df_week = << >>
    /\ shown_today = << >>
    /\ shown_week = << >>
    /\ display_cols = << >>
    /\ display_cols_today = << >>
    /\ display_cols_week = << >>

\* st.cache_data (lines 49 and 59): a call served from the cache reads
\* neither st.secrets nor the spreadsheet and gives what the call gave when
\* it returned.  The pairs (st.secrets, the service answers) a call sees.
CallInputs ==
    { << IF cached THEN "valid" ELSE secret, cached \/ api >> :
        cached \in BOOLEAN, secret \in Secrets, api \in BOOLEAN }

\* Lines 123-128: the worksheets and the one to show.
ListWorksheets ==
    /\ pc = "start"
    /\ \E call \in CallInputs, titles \in TitleLists :
         LET res == list_worksheets(call[1], call[2], titles)
         IN  IF res.stopped
             THEN /\ messages' = messages \o res.messages
                  /\ pc' = "stopped_no_secret"
                  /\ UNCHANGED << sheet_names, sel_sheet, raised >>
             ELSE IF res.raised
             THEN /\ raised' = TRUE
                  /\ pc' = "crashed_client"
                  /\ UNCHANGED << sheet_names, sel_sheet, messages >>
             ELSE IF res.sheets = << >>
             THEN /\ messages' = Append(messages, NoWorksheetError)
                  /\ pc' = "stopped_no_worksheet"
                  /\ sheet_names' = res.sheets
                  /\ UNCHANGED << sel_sheet, raised >>
             ELSE /\ sheet_names' = res.sheets
                  /\ sel_sheet' \in Selectbox(Range(res.sheets))
                  /\ pc' = "load"
                  /\ UNCHANGED << messages, raised >>
    /\ UNCHANGED << values, df,
                    months, days, sel_month, sel_day, df_day, shown_day,
                    today, week_start, week_end,
                    grades, class_options, sel_grade, sel_class, class_mask,
                    df_today, df_week, shown_today, shown_week,
                    display_cols, display_cols_today, display_cols_week >>

\* Lines 131-134: load the sheet; stop on an empty table.  The cells are
\* read only when the client is made and the service answers.
Load ==
    /\ pc = "load"
    /\ \E call \in CallInputs :
       \E vals \in (IF call = << "valid", TRUE >> THEN Sheets ELSE { << >> }) :
         LET res == load_data(call[1], call[2], vals)
         IN  IF res.stopped
             THEN /\ messages' = messages \o res.messages
                  /\ pc' = "stopped_no_secret"
                  /\ UNCHANGED << values, raised, df >>
             ELSE IF ~res.read
             THEN /\ raised' = res.raised
                  /\ pc' = "crashed_client"
                  /\ UNCHANGED << values, df, messages >>
             ELSE /\ values' = vals
                  /\ raised' = res.raised
                  /\ df' = res.df
                  /\ messages' = IF ~res.raised /\ IsEmpty(res.df)
                                 THEN Append(messages \o res.messages,
                                             Warning("nothing_to_show"))
                                 ELSE messages \o res.messages
                  /\ pc' = IF res.raised THEN "crashed"
                           ELSE IF IsEmpty(res.df) THEN "stopped_empty"
                           ELSE "left"
    /\ UNCHANGED << sheet_names, sel_sheet,
                    months, days, sel_month, sel_day, df_day, shown_day,
                    today, week_start, week_end,
                    grades, class_options, sel_grade, sel_class, class_mask,
                    df_today, df_week, shown_today, shown_week,
                    display_cols, display_cols_today, display_cols_week >>

\* Lines 139-171.
LeftColumn ==
    /\ pc = "left"
    /\ \E month \in Selectbox(Months(df)) :
       \E day \in Selectbox(Days(df, month)) :
         LET view == SelectSeq(df.rows, LAMBDA r : DayMask(df, month, day, r))
         IN  /\ months' = Months(df)
             /\ days' = Days(df, month)
             /\ sel_month' = month
             /\ sel_day' = day
             /\ df_day' = view
             /\ shown_day' = Shown(view)
             /\ display_cols' = IF Len(view) = 0 THEN display_cols
                                ELSE get_display_cols(df)
    /\ messages' = IF TIME_COL \in Range(df.columns) THEN messages
                   ELSE Append(messages, Info("no_time_column"))
    /\ pc' = "right"
    /\ UNCHANGED << sheet_names, sel_sheet, values, raised, df,
                    today, week_start, week_end,
                    grades, class_options, sel_grade, sel_class, class_mask,
                    df_today, df_week, shown_today, shown_week,
                    display_cols_today, display_cols_week >>

\* Lines 174-231.
RightColumn ==
    /\ pc = "right"
    /\ \E now \in Todays :
       \E grade \in Selectbox(GradeOptions(df)) :
       \E class \in Selectbox(ClassOptions(df, grade)) :
         LET start   == WeekStart(now)
             end     == WeekEnd(start)
             todays  == SelectSeq(df.rows,
                          LAMBDA r : r.date_only = now /\ ClassMask(grade, class, r))
             weeks   == SelectSeq(df.rows,
                          LAMBDA r : InWeek(start, end, r) /\ ClassMask(grade, class, r))
         IN  /\ today' = now
             /\ week_start' = start
             /\ week_end' = end
             /\ grades' = GradeOptions(df)
             /\ class_options' = ClassOptions(df, grade)
             /\ sel_grade' = grade
             /\ sel_class' = class
             /\ class_mask' = [k \in 1..Len(df.rows) |-> ClassMask(grade, class, df.rows[k])]
             /\ df_today' = todays
             /\ df_week' = weeks
             /\ shown_today' = Shown(todays)
             /\ shown_week' = Shown(weeks)
    /\ display_cols_today' = get_display_cols(df)
    /\ display_cols_week' = get_display_cols(df)
    /\ pc' = "done"
    /\ UNCHANGED << sheet_names, sel_sheet, values, raised, df, messages,
                    months, days, sel_month, sel_day, df_day, shown_day, display_cols >>

Next == ListWorksheets \/ Load \/ LeftColumn \/ RightColumn

Spec == Init /\ [][Next]_vars

---------------------------------------------------------------------------
\* What the properties below say of the sheet the table was built from.

\* load_data has run past the reading of the cells.
Built == pc \in { "stopped_empty", "crashed", "left", "right", "done" }

SheetHeader ==
    IF values = << >> THEN << >>
    ELSE [i \in 1..Len(values[1]) |-> Strip(values[1][i])]

DataRows == IF values = << >> THEN << >> ELSE Tail(values)

BlankHeader == \A i \in 1..Len(SheetHeader) : SheetHeader[i] = << >>

MissingColumns == { DATE_COL, STU_ID_COL } \ Range(SheetHeader)

\* The header has both mandatory labels, each once: a table is built.
TableBuilt ==
    /\ Built
    /\ Count(SheetHeader, DATE_COL) = 1
    /\ Count(SheetHeader, STU_ID_COL) = 1

SourceDate(i) == DataRows[i][ColPos(SheetHeader, DATE_COL)]

SourceId(i) == DataRows[i][ColPos(SheetHeader, STU_ID_COL)]

\* The date cell of data row i after the forward fill: its own text, or the
\* text of the nearest non-empty cell above it.
RECURSIVE FilledDate(_)
FilledDate(i) ==
    IF i = 0 THEN << >>
    ELSE IF SourceDate(i) # << >> THEN SourceDate(i) ELSE FilledDate(i - 1)

RECURSIVE DropTrailingNonDigits(_)
DropTrailingNonDigits(s) ==
    IF s = << >> \/ s[Len(s)] \in Digits THEN s
    ELSE DropTrailingNonDigits(SubSeq(s, 1, Len(s) - 1))

\* The day the digit-suffix fallback reads from a cell: the number of the
\* last one or two digits before the trailing non-digits, 0 when there is none.
DigitSuffix(s) ==
    LET t == DropTrailingNonDigits(s)
        n == Len(t)
    IN  IF n = 0 THEN 0
        ELSE IF n >= 2 /\ t[n - 1] \in Digits
             THEN DigitVal(t[n - 1]) * 10 + DigitVal(t[n])
             ELSE DigitVal(t[n])

\* The row of the table built from data row i (pandas index i - 1).
TableRows(i) == { r \in Range(df.rows) : r.index = i - 1 }

ErrorShown == \E k \in 1..Len(messages) : messages[k].level = "error"

\* The trimmed identifier starts with the characters g then c.
StartsWith(id, g, c) == Len(id) >= 2 /\ << id[1] >> = g /\ << id[2] >> = c

---------------------------------------------------------------------------
\* C1 (forward fill): in a built table every data row whose date cell is
\* empty and lies below a dated row is kept, with the date of the nearest
\* non-empty date cell above it.  load_data coerces the empty cell to NaT and
\* drops the row (lines 95-96), so this fails.
C1_ForwardFill ==
    TableBuilt =>
      \A i \in 1..Len(DataRows) :
        (SourceDate(i) = << >> /\ to_datetime(FilledDate(i)) # NaT)
          => \E r \in TableRows(i) : r.DATE = to_datetime(FilledDate(i))

\* C2 (rows without identifier are removed): no row of the table, of the
\* exact-day view, of today's view or of the week's view has an identifier
\* cell that is empty after trimming.  load_data strips the identifier and
\* keeps the row (line 99), so this fails.
C2_NoEmptyIdentifier ==
    Built =>
      \A r \in Range(df.rows) \cup Range(df_day) \cup Range(df_today) \cup Range(df_week) :
        Strip(Cell(df.columns, r, STU_ID_COL)) # << >>

\* C3 (missing mandatory column): with a header that is not blank and lacks
\* a mandatory label, the build reports an error that names the missing
\* label, returns no row, and returns something the caller can tell from what
\* it returns for an empty sheet or a blank header.  load_data returns the
\* same empty frame in all three cases (lines 74, 82, 92), so this fails.
C3_MissingColumn ==
    (Built /\ values # << >> /\ ~BlankHeader /\ MissingColumns # {}) =>
      /\ \E k \in 1..Len(messages) :
           messages[k].level = "error" /\ MissingColumns \subseteq Range(messages[k].names)
      /\ df.rows = << >>
      /\ \A v \in { << >>, << << << >>, << " " >> >> >> } : load_data("valid", TRUE, v).df # df

\* C4 (empty input): with no data row the build ends without an exception
\* and without an error, in an empty table, whatever the header.  With a
\* header that lacks a mandatory label load_data reports the missing-column
\* error (lines 87-92), and with a repeated date or identifier label it
\* raises at line 95 or 99, so this fails.
C4_EmptyInput ==
    (Built /\ Len(values) <= 1) => (~raised /\ IsEmpty(df) /\ ~ErrorShown)

\* C5 (digit-suffix fallback): in a built table a data row whose date cell
\* does not parse as a date but ends in a run of digits is kept, with that
\* number as its day and no canonical date.  load_data drops every row whose
\* date does not parse (line 96), so this fails.
C5_DigitSuffixFallback ==
    TableBuilt =>
      \A i \in 1..Len(DataRows) :
        (to_datetime(SourceDate(i)) = NaT /\ DigitSuffix(SourceDate(i)) # 0)
          => \E r \in TableRows(i) : r.day = DigitSuffix(SourceDate(i)) /\ r.DATE = NaT

---------------------------------------------------------------------------
\* The exact-day view has been computed.
LeftDone == pc \in { "right", "done" }

HasTimeColumn == TIME_COL \in Range(SheetHeader)

OnDay(r) == r.DATE.m = sel_month /\ r.DATE.d = sel_day

IsMorning(r) == Cell(df.columns, r, TIME_COL) = MORNING

\* The rows of a view are rows of the table, in the order of the table.
InRowOrder(view) ==
    \A i, j \in 1..Len(view) : i < j => view[i].index < view[j].index

\* A displayed view holds the rows of the view in ascending order of the
\* date, rows of equal date in their original row order.
DisplayOf(shown, view) ==
    /\ Len(shown) = Len(view)
    /\ Range(shown) = Range(view)
    /\ \A i, j \in 1..Len(shown) :
         i < j => /\ DateLE(shown[i].DATE, shown[j].DATE)
                  /\ shown[i].DATE = shown[j].DATE => shown[i].index < shown[j].index

C7_WeekRangeInclusive ==
    pc = "done" =>
      /\ \A r \in Range(df.rows) :
           (r \in Range(df_week)) <=>
             /\ toordinal(week_start) <= toordinal(r.DATE)
             /\ toordinal(r.DATE) <= toordinal(week_end)
             /\ StartsWith(r.STU_ID, sel_grade, sel_class)
      /\ InRowOrder(df_week)
      /\ weekday(week_start) = 0
      /\ weekday(week_end) = 6
      /\ toordinal(week_end) = toordinal(week_start) + 6
      /\ toordinal(week_start) <= toordinal(today)
      /\ toordinal(today) <= toordinal(week_end)

\* A row dated week_end is in the week view and a row of the same class
\* dated the day after is not.
C7_Witness ==
    /\ pc = "done"
    /\ \E r \in Range(df_week) : r.DATE = week_end
    /\ \E q \in Range(df.rows) :
         /\ q.DATE = NextDay(week_end)
         /\ StartsWith(q.STU_ID, sel_grade, sel_class)
         /\ q \notin Range(df_week)

\* C8 (group filter round trip): the grade and the class of a row are the
\* first and the second character of its trimmed identifier cell, each a
\* one-character text, and the class mask of the selected grade and class is
\* true of exactly the rows whose trimmed identifier starts with these two.
C8_GroupFilter ==
    pc = "done" =>
      \A k \in 1..Len(df.rows) :
        LET r  == df.rows[k]
            id == Strip(Cell(df.columns, r, STU_ID_COL))
        IN  /\ Len(id) >= 2 => (r.GRADE = << id[1] >> /\ r.CLASS = << id[2] >>)
            /\ class_mask[k] <=> StartsWith(id, sel_grade, sel_class)

\* An identifier cell with a leading blank matches the filter of its class,
\* and a row of another class does not.
C8_Witness ==
    /\ pc = "done"
    /\ \E k \in 1..Len(df.rows) :
         /\ Cell(df.columns, df.rows[k], STU_ID_COL) # df.rows[k].STU_ID
         /\ class_mask[k]
    /\ \E k \in 1..Len(df.rows) : Len(df.rows[k].STU_ID) >= 2 /\ ~class_mask[k]

\* C9 (short identifier): a data row with a date and an identifier of fewer
\* than two characters does not abort the build and is kept, its missing
\* group keys being NaN; NaN is no option of the grade or the class selectbox,
\* and the class mask is false of every such row.
C9_ShortIdentifier ==
    TableBuilt =>
      /\ ~raised
      /\ \A i \in 1..Len(DataRows) :
           (to_datetime(SourceDate(i)) # NaT /\ Len(Strip(SourceId(i))) < 2)
             => \E r \in TableRows(i) :
                  /\ r.CLASS = NaN
                  /\ Strip(SourceId(i)) = << >> => r.GRADE = NaN
      /\ pc = "done" =>
           /\ NaN \notin grades
           /\ NaN \notin class_options
           /\ sel_grade # NaN /\ sel_class # NaN
           /\ \A k \in 1..Len(df.rows) :
                Len(df.rows[k].STU_ID) < 2 => ~class_mask[k]

\* A one-character identifier whose grade is the selected one: the filter
\* asks for its class, which it does not have.
C9_Witness ==
    /\ pc = "done"
    /\ \E k \in 1..Len(df.rows) :
         /\ Len(df.rows[k].STU_ID) = 1
         /\ df.rows[k].GRADE = sel_grade
         /\ ~class_mask[k]

\* C10 (time-of-day degradation): the selected day is one the day selectbox
\* offers; without a time-of-day column the exact-day view is every row of
\* the selected month and day, is not empty, and the notice is shown; with
\* the column it is the rows of that day whose time of day is the morning
\* value.
C10_TimeOfDayDegradation ==
    LeftDone =>
      /\ sel_month \in months /\ sel_day \in days
      /\ ~HasTimeColumn =>
           /\ df_day = SelectSeq(df.rows, OnDay)
           /\ df_day # << >>
           /\ \E k \in 1..Len(messages) : messages[k] = Info("no_time_column")
      /\ HasTimeColumn =>
           /\ df_day = SelectSeq(df.rows, LAMBDA r : OnDay(r) /\ IsMorning(r))
           /\ \A k \in 1..Len(messages) : messages[k] # Info("no_time_column")

\* With the column, a day the selectbox offers has no morning row: the view
\* is empty.
C10_Witness ==
    /\ pc = "right"
    /\ HasTimeColumn
    /\ sel_day \in days
    /\ df_day = << >>

=============================================================================
